---- MODULE Spec2Model ----
(***************************************************************************)
(* The memory management unit of egos-2000 (earth/cpu_mmu.c): the frame    *)
(* allocator, the software TLB, the Sv32 identity mapping of the boot      *)
(* process and mmu_init.                                                   *)
(*                                                                         *)
(* Addresses are kept as page numbers (address / PAGE_SIZE): every address *)
(* the code forms is page aligned, and the largest one, 0x80000000 plus    *)
(* 1023 pages, fits the 32 bits of an unsigned int, so no arithmetic of    *)
(* the code wraps.  A page of memory holds one abstract value (Bytes)      *)
(* where it is process memory and 1024 words where it is a page table.     *)
(***************************************************************************)
EXTENDS Integers, Naturals, FiniteSets, Sequences, TLC

(* ------------------------------ bounds -------------------------------- *)
\* The frame table has 256 entries in the source (cpu_mmu.c:22); the model
\* keeps 8, one more than the 7 frames the boot page tables take.
NFRAMES == 8
\* Process ids are 0..MaxPid (MAX_NPROCESS - 1 in the source).
MaxPid == 1
\* Virtual pages a process is bound at are 0..MaxPage.
MaxPage == 1
\* The kernel's callers hold at most MaxLive frames at a time while the
\* software TLB is installed.
MaxLive == 2

(* ------------------------- program constants -------------------------- *)
FLAG_VALID_RWX == 15
FLAG_NEXT_LEVEL == 1
\* Entries of one Sv32 page table (PAGE_SIZE / sizeof(unsigned int)).
PT_ENTRIES == 1024
\* Page number of the first frame of the paging device's frame cache.
FRAME_CACHE_START == 524292

Frames == 0 .. (NFRAMES - 1)
Pids == 0 .. MaxPid
Pages == 0 .. MaxPage
\* What a page of process memory holds: blank, or a pattern.  Two values are
\* enough to tell any two pages apart.
Bytes == {0, 1}
NoPid == -1

VARIABLES
    pc,                     \* position of the kernel: inside mmu_init, or "run"
    buf0,                   \* buf[0] of mmu_init
    hw,                     \* the board the kernel runs on
    earth,                  \* the fields of struct earth that mmu_init sets
    table,                  \* struct frame_mapping table[NFRAMES]
    pid_to_pagetable_base,  \* unsigned int* pid_to_pagetable_base[]
    curr_vm_pid,            \* static int curr_vm_pid of soft_mmu_switch
    store,                  \* paging device: the cached content of each frame
    window,                 \* process memory at physical address page_no << 12
    frame_id,               \* static unsigned int frame_id
    root,                   \* static unsigned int* root
    leaf,                   \* static unsigned int* leaf
    ptmem,                  \* the words of the frames that hold page tables
    nregion,                \* identity regions pagetable_identity_mapping has set up
    paging_ready,           \* paging_init has run
    fatal,                  \* the FATAL that halted the kernel, or "none"
    live,                   \* history: frame ids mmu_alloc returned that no
                            \* mmu_free has released since
    handler_ran,            \* history: platform_detect was invoked by the probe
    paging_early,           \* history: the paging device was called before
                            \* paging_init
    srv                     \* the client of the directory and file servers

vars == << pc, buf0, hw, earth, table, pid_to_pagetable_base, curr_vm_pid,
           store, window, frame_id, root, leaf, ptmem, nregion, paging_ready,
           fatal, live, handler_ran, paging_early, srv >>

(* --------------------------- frame allocator -------------------------- *)
\* An entry of the zero-initialised table, and what memset(&table[i], 0) leaves.
ZeroMapping == [use |-> 0, pid |-> 0, page_no |-> 0]

InUse(t) == { i \in Frames : t[i].use # 0 }
OwnedBy(t, pid) == { i \in Frames : t[i].use # 0 /\ t[i].pid = pid }

\* Mutant: the loop bound is one short, so the last frame is never handed out.
RECURSIVE AllocScanShort(_, _)
AllocScanShort(t, i) ==
    IF i >= NFRAMES - 1 THEN NFRAMES
    ELSE IF t[i].use = 0 THEN i
    ELSE AllocScanShort(t, i + 1)

\* The frame the loop of mmu_alloc stops at, scanning from i; NFRAMES when
\* the loop runs off the table and FATAL is reached.
RECURSIVE AllocScan(_, _)
AllocScan(t, i) ==
    IF i >= NFRAMES THEN NFRAMES
    ELSE IF t[i].use = 0 THEN i
    ELSE AllocScan(t, i + 1)

\* Address (page number) paging_read(frame, alloc_only) returns.
paging_read(f) == FRAME_CACHE_START + f

\* Mutant: the highest unused frame is taken.
mmu_alloc_id_last(t) ==
    IF InUse(t) = Frames THEN NFRAMES
    ELSE CHOOSE i \in Frames \ InUse(t) : \A j \in Frames \ InUse(t) : j <= i

\* mmu_alloc: the frame id it returns, NFRAMES for FATAL.
mmu_alloc_id(t) == AllocScan(t, 0)

\* Mutant: the frame found is not marked used.
mmu_alloc_table_nomark(t) == t

\* mmu_alloc: the table it leaves.
mmu_alloc_table(t) ==
    LET i == mmu_alloc_id(t)
    IN IF i = NFRAMES THEN t ELSE [t EXCEPT ![i].use = 1]

\* Mutant: the loop returns after the first frame it releases.
mmu_free_table_first(t, pid) ==
    [i \in Frames |->
        IF t[i].use # 0 /\ t[i].pid = pid
           /\ (\A j \in Frames : j < i => ~(t[j].use # 0 /\ t[j].pid = pid))
        THEN [use |-> 0, pid |-> 0, page_no |-> 0] ELSE t[i]]

\* Mutant: only the use flag is cleared, the owner and the page stay.
mmu_free_table_useonly(t, pid) ==
    [i \in Frames |->
        IF t[i].use # 0 /\ t[i].pid = pid THEN [t[i] EXCEPT !.use = 0] ELSE t[i]]

\* Mutant: || for && in the test of line 43.
mmu_free_table_or(t, pid) ==
    [i \in Frames |->
        IF t[i].use # 0 \/ t[i].pid = pid
        THEN [use |-> 0, pid |-> 0, page_no |-> 0] ELSE t[i]]

\* mmu_free: the table it leaves.
mmu_free_table(t, pid) ==
    [i \in Frames |->
        IF t[i].use # 0 /\ t[i].pid = pid THEN ZeroMapping ELSE t[i]]

\* mmu_free: pid_to_pagetable_base[pid] = 0.
mmu_free_base(base, pid) == [base EXCEPT ![pid] = 0]

\* mmu_free: the resident pid it leaves; curr_vm_pid is a static of
\* soft_mmu_switch (line 57) and mmu_free does not assign it.
mmu_free_curr(curr, pid) == curr

\* paging_invalidate_cache(i) for every frame mmu_free releases: the cached
\* copy is dropped, the content kept by the device is not changed.
paging_invalidate_cache(s, released) == s

(* ----------------------------- software TLB --------------------------- *)
\* soft_mmu_map: the table it leaves.
soft_mmu_map_table(t, pid, page_no, f) ==
    [t EXCEPT ![f].pid = pid, ![f].page_no = page_no]

\* paging_write(i, page_no): the device keeps the content of the memory at
\* page_no << 12 as the content of frame i.
paging_write(s, w, i, page_no) == [s EXCEPT ![i] = w[page_no]]

\* First loop of soft_mmu_switch, from frame i on.
RECURSIVE SwitchOut(_, _, _, _, _)
SwitchOut(s, t, w, curr, i) ==
    IF i >= NFRAMES THEN s
    ELSE IF t[i].use # 0 /\ t[i].pid = curr
         THEN SwitchOut(paging_write(s, w, i, t[i].page_no), t, w, curr, i + 1)
         ELSE SwitchOut(s, t, w, curr, i + 1)

\* Second loop of soft_mmu_switch, from frame i on: memcpy to page_no << 12.
RECURSIVE SwitchIn(_, _, _, _, _)
SwitchIn(w, t, s, pid, i) ==
    IF i >= NFRAMES THEN w
    ELSE IF t[i].use # 0 /\ t[i].pid = pid
         THEN SwitchIn([w EXCEPT ![t[i].page_no] = s[i]], t, s, pid, i + 1)
         ELSE SwitchIn(w, t, s, pid, i + 1)

\* Mutant: the frames of the outgoing process are not written out.
soft_mmu_switch_store_nosave(s, t, w, curr, pid) == s

\* Mutant: the frames of the incoming process are not copied in.
soft_mmu_switch_window_nocopy(s, t, w, curr, pid) == w

\* soft_mmu_switch: the frame contents, the memory and the resident pid it
\* leaves.
soft_mmu_switch_store(s, t, w, curr, pid) ==
    IF pid = curr THEN s ELSE SwitchOut(s, t, w, curr, 0)

soft_mmu_switch_window(s, t, w, curr, pid) ==
    IF pid = curr THEN w
    ELSE SwitchIn(w, t, soft_mmu_switch_store(s, t, w, curr, pid), pid, 0)

soft_mmu_switch_curr(curr, pid) == pid

\* The paging_write calls of the first loop, from frame i on, in order.
RECURSIVE SwitchOutOps(_, _, _)
SwitchOutOps(t, curr, i) ==
    IF i >= NFRAMES THEN << >>
    ELSE (IF t[i].use # 0 /\ t[i].pid = curr
          THEN << [op |-> "paging_write", frame |-> i, page_no |-> t[i].page_no] >>
          ELSE << >>) \o SwitchOutOps(t, curr, i + 1)

\* The paging_read calls (with the memcpy) of the second loop, from frame i
\* on, in order.
RECURSIVE SwitchInOps(_, _, _)
SwitchInOps(t, pid, i) ==
    IF i >= NFRAMES THEN << >>
    ELSE (IF t[i].use # 0 /\ t[i].pid = pid
          THEN << [op |-> "paging_read", frame |-> i, page_no |-> t[i].page_no] >>
          ELSE << >>) \o SwitchInOps(t, pid, i + 1)

\* Mutant: the incoming frames are copied in before the outgoing pages are
\* written out.
soft_mmu_switch_ops_infirst(t, curr, pid) ==
    IF pid = curr THEN << >>
    ELSE SwitchInOps(t, pid, 0) \o SwitchOutOps(t, curr, 0)
         \o << [op |-> "curr_vm_pid", frame |-> 0, page_no |-> 0] >>

\* soft_mmu_switch: what it does, in program order: line 58, the loop of
\* lines 61-63, the loop of lines 66-68, the assignment of line 70.
soft_mmu_switch_ops(t, curr, pid) ==
    IF pid = curr THEN << >>
    ELSE SwitchOutOps(t, curr, 0) \o SwitchInOps(t, pid, 0)
         \o << [op |-> "curr_vm_pid", frame |-> 0, page_no |-> 0] >>

\* The frame contents and the memory after the operations ops, done one
\* after the other on s and w.
RECURSIVE SwitchReplay(_, _, _)
SwitchReplay(ops, s, w) ==
    IF ops = << >> THEN [store |-> s, window |-> w]
    ELSE LET o == Head(ops)
         IN IF o.op = "paging_write"
            THEN SwitchReplay(Tail(ops), paging_write(s, w, o.frame, o.page_no), w)
            ELSE IF o.op = "paging_read"
            THEN SwitchReplay(Tail(ops), s, [w EXCEPT ![o.page_no] = s[o.frame]])
            ELSE SwitchReplay(Tail(ops), s, w)

(* ------------------------ page table translation ---------------------- *)
\* a | b on unsigned ints.
RECURSIVE BitOr(_, _)
BitOr(a, b) ==
    IF a = 0 THEN b
    ELSE IF b = 0 THEN a
    ELSE (IF a % 2 = 1 \/ b % 2 = 1 THEN 1 ELSE 0) + 2 * BitOr(a \div 2, b \div 2)

\* (unsigned int)p >> 2 of the page-aligned address whose page number is pn.
Shr2(pn) == pn * PT_ENTRIES

\* A page table after memset(.., 0, PAGE_SIZE).
ZeroTable == [k \in 0 .. (PT_ENTRIES - 1) |-> 0]

\* The regions pagetable_identity_mapping maps, in its order: the page number
\* of the base address and the number of pages.
IdentityRegions ==
    << [addr |-> 8192,   npages |-> 16],      \* 0x02000000 CLINT
       [addr |-> 65555,  npages |-> 1],       \* 0x10013000 UART0
       [addr |-> 132096, npages |-> 1024],    \* 0x20400000 boot ROM
       [addr |-> 133120, npages |-> 1024],    \* 0x20800000 disk image
       [addr |-> 32768,  npages |-> 8],       \* 0x08000000 ITIM
       [addr |-> 524288, npages |-> 1024] >>  \* 0x80000000 DTIM

\* Mutant: every page of the region maps to the region's first page.
setup_leaf_entry_base(addr, i) == BitOr(Shr2(addr), FLAG_VALID_RWX)

\* The leaf entry of line 99 for page i of the region at addr.
setup_leaf_entry(addr, i) == BitOr(Shr2(addr + i), FLAG_VALID_RWX)

\* Mutant: the root entry carries the leaf flags.
setup_root_entry_rwx(lf) == BitOr(Shr2(lf), FLAG_VALID_RWX)

\* The root entry setup_identity_region writes for the leaf table at lf.
setup_root_entry(lf) == BitOr(Shr2(lf), FLAG_NEXT_LEVEL)

\* setup_identity_region: the page-table memory it leaves, rt and lf being
\* the root table and the leaf table just allocated.
setup_identity_region_mem(mem, rt, lf, addr, npages) ==
    LET vpn1 == addr \div PT_ENTRIES
        vpn0 == addr % PT_ENTRIES
        m1 == [p \in (DOMAIN mem) \cup {lf} |->
                  IF p = lf THEN ZeroTable ELSE mem[p]]
        m2 == [m1 EXCEPT ![rt][vpn1] = setup_root_entry(lf)]
    IN [m2 EXCEPT ![lf] =
           [k \in 0 .. (PT_ENTRIES - 1) |->
               IF k >= vpn0 /\ k < vpn0 + npages
               THEN setup_leaf_entry(addr, k - vpn0)
               ELSE m2[lf][k]]]

\* setup_identity_region, lines 88-89: the frame table it leaves and the
\* leaf table it writes; mmu_alloc is called on every call.
setup_identity_region_table(t) == mmu_alloc_table(t)

setup_identity_region_leaf(t) == paging_read(mmu_alloc_id(t))

\* What the Sv32 walk of the table at rt gives for virtual page vpn: the
\* physical page and the R/W/X bits, or unmapped.
Unmapped == [valid |-> FALSE, ppn |-> 0, rwx |-> 0]

Walk(mem, rt, vpn) ==
    LET pte1 == mem[rt][vpn \div PT_ENTRIES]
    IN IF pte1 % 2 = 0 THEN Unmapped
       ELSE IF (pte1 \div 2) % 8 # 0
            THEN [valid |-> TRUE, ppn |-> pte1 \div PT_ENTRIES, rwx |-> (pte1 \div 2) % 8]
       ELSE IF (pte1 \div PT_ENTRIES) \notin DOMAIN mem THEN Unmapped
       ELSE LET pte0 == mem[pte1 \div PT_ENTRIES][vpn % PT_ENTRIES]
            IN IF pte0 % 2 = 0 THEN Unmapped
               ELSE [valid |-> TRUE, ppn |-> pte0 \div PT_ENTRIES,
                     rwx |-> (pte0 \div 2) % 8]

(* ------------------- library/syscall/servers.c ------------------------ *)
\* Process ids of the system servers, and the processes a message can come
\* from.
GPID_FILE == 2
GPID_DIR == 3
Senders == 1..4

\* Inode numbers, file names and block offsets the callers pass.
MaxIno == 1
Inos == 0..MaxIno
Names == {"a", "b"}
Offsets == 0..1

\* What sys_recv can leave in buf: the bytes are read as a dir_reply
\* (status, ino) by dir_lookup and as a file_reply (status, block) by
\* file_read.
Replies == [status : {"OK", "ERROR"}, ino : Inos, block : Bytes]

\* Line 26.
dir_lookup_check(s) == s = GPID_DIR

\* Line 29.
dir_lookup_ret(reply) == IF reply.status = "OK" THEN reply.ino ELSE -1

\* Mutant: file_read expects the directory server.
file_read_check_dir(s) == s = GPID_DIR

\* Line 40.
file_read_check(s) == s = GPID_FILE

\* Line 44.
file_read_ret(reply) == IF reply.status = "OK" THEN 0 ELSE -1

\* The client before its first call: nothing sent, nothing received.
SrvInit ==
    [pc |-> "idle", dest |-> 0, req |-> [type |-> "none", ino |-> 0, name |-> "", offset |-> 0],
     sender |-> 0, buf |-> [status |-> "ERROR", ino |-> 0, block |-> 0],
     block |-> 0, block0 |-> 0, returned |-> FALSE, ret |-> 0, fatal |-> "none"]

(* -------------------------------- state ------------------------------- *)
Init ==
    /\ pc = "choose"
    /\ buf0 = "nul"
    /\ hw \in {"QEMU", "ARTY"}
    /\ earth = [platform |-> "unset", excp |-> "NULL", mmu_free |-> "NULL",
                mmu_alloc |-> "NULL", mmu_map |-> "NULL", mmu_switch |-> "NULL"]
    /\ table = [i \in Frames |-> ZeroMapping]
    /\ pid_to_pagetable_base = [p \in Pids |-> 0]
    /\ curr_vm_pid = NoPid
    /\ store = [i \in Frames |-> 0]
    /\ window = [p \in Pages |-> 0]
    /\ frame_id = 0
    /\ root = 0
    /\ leaf = 0
    /\ ptmem = [p \in {} |-> ZeroTable]
    /\ nregion = 0
    /\ paging_ready = FALSE
    /\ fatal = "none"
    /\ live = {}
    /\ handler_ran = FALSE
    /\ paging_early = FALSE
    /\ srv = SrvInit

AllocVars == << table, frame_id, fatal, live >>
HistVars == << handler_ran, paging_early >>
BootVars == << pc, buf0, hw, earth, nregion, paging_ready >>
PtVars == << root, leaf, ptmem, pid_to_pagetable_base >>
SoftVars == << curr_vm_pid, store, window >>

(* ------------------------------- mmu_init ----------------------------- *)
\* The loop of line 147: tty_read until buf[0] is '0' or '1'.
mmu_init_read(c) ==
    /\ pc = "choose" /\ fatal = "none"
    /\ UNCHANGED << HistVars, srv >>
    /\ buf0 \notin {"0", "1"}
    /\ buf0' = c
    /\ UNCHANGED << pc, hw, earth, nregion, paging_ready >>
    /\ UNCHANGED << AllocVars, PtVars, SoftVars >>

\* Mutant: the loop ends at the first character read.
mmu_init_chosen_any ==
    /\ pc = "choose" /\ fatal = "none"
    /\ UNCHANGED << HistVars, srv >>
    /\ buf0 # "nul"
    /\ pc' = "probe"
    /\ UNCHANGED << buf0, hw, earth, nregion, paging_ready >>
    /\ UNCHANGED << AllocVars, PtVars, SoftVars >>

\* The loop of line 147 ends: buf[0] is '0' or '1'.
mmu_init_chosen ==
    /\ pc = "choose" /\ fatal = "none"
    /\ UNCHANGED << HistVars, srv >>
    /\ buf0 \in {"0", "1"}
    /\ pc' = "probe"
    /\ UNCHANGED << buf0, hw, earth, nregion, paging_ready >>
    /\ UNCHANGED << AllocVars, PtVars, SoftVars >>

\* Lines 151-155: the store to 0x1000 traps on the Arty board, where
\* platform_detect then runs; the handler is registered and removed again.
mmu_init_probe ==
    /\ pc = "probe" /\ fatal = "none"
    /\ earth' = [earth EXCEPT !.platform = IF hw = "ARTY" THEN "ARTY" ELSE "QEMU",
                              !.excp = "NULL"]
    /\ handler_ran' = (hw = "ARTY")
    /\ UNCHANGED << paging_early, srv >>
    /\ pc' = "validate"
    /\ UNCHANGED << buf0, hw, nregion, paging_ready >>
    /\ UNCHANGED << AllocVars, PtVars, SoftVars >>

\* Mutant: either condition alone is fatal.
mmu_init_validate_or ==
    /\ pc = "validate" /\ fatal = "none"
    /\ UNCHANGED << HistVars, srv >>
    /\ IF earth.platform = "ARTY" \/ buf0 = "0"
       THEN fatal' = "mmu_init" /\ pc' = pc
       ELSE fatal' = fatal /\ pc' = "wire"
    /\ UNCHANGED << buf0, hw, earth, nregion, paging_ready, table, frame_id, live >>
    /\ UNCHANGED << PtVars, SoftVars >>

\* Lines 156-157.
mmu_init_validate ==
    /\ pc = "validate" /\ fatal = "none"
    /\ UNCHANGED << HistVars, srv >>
    /\ IF earth.platform = "ARTY" /\ buf0 = "0"
       THEN fatal' = "mmu_init" /\ pc' = pc
       ELSE fatal' = fatal /\ pc' = "wire"
    /\ UNCHANGED << buf0, hw, earth, nregion, paging_ready, table, frame_id, live >>
    /\ UNCHANGED << PtVars, SoftVars >>

\* Lines 160-163.
mmu_init_wire ==
    /\ pc = "wire" /\ fatal = "none"
    /\ UNCHANGED << HistVars, srv >>
    /\ earth' = [earth EXCEPT !.mmu_free = "mmu_free", !.mmu_alloc = "mmu_alloc",
                              !.mmu_map = "soft_mmu_map",
                              !.mmu_switch = "soft_mmu_switch"]
    /\ pc' = IF buf0 = "0" THEN "root" ELSE "paging_init"
    /\ UNCHANGED << buf0, hw, nregion, paging_ready >>
    /\ UNCHANGED << AllocVars, PtVars, SoftVars >>

\* pagetable_identity_mapping(0), lines 104-107: the root table.
pagetable_identity_mapping_root ==
    /\ pc = "root" /\ fatal = "none"
    /\ paging_early' = (paging_early \/ (mmu_alloc_id(table) # NFRAMES /\ ~paging_ready))
    /\ UNCHANGED << handler_ran, srv >>
    /\ LET i == mmu_alloc_id(table)
       IN IF i = NFRAMES
          THEN /\ fatal' = "mmu_alloc"
               /\ UNCHANGED << pc, table, frame_id, live, PtVars, nregion >>
          ELSE /\ table' = mmu_alloc_table(table)
               /\ frame_id' = i
               /\ live' = live \cup {i}
               /\ root' = paging_read(i)
               /\ ptmem' = [p \in (DOMAIN ptmem) \cup {paging_read(i)} |->
                               IF p = paging_read(i) THEN ZeroTable ELSE ptmem[p]]
               /\ pid_to_pagetable_base' =
                      [pid_to_pagetable_base EXCEPT ![0] = paging_read(i)]
               /\ pc' = "region"
               /\ nregion' = 0
               /\ UNCHANGED << leaf, fatal >>
    /\ UNCHANGED << buf0, hw, earth, paging_ready, SoftVars >>

\* The next setup_identity_region call of lines 109-114.
setup_identity_region ==
    /\ pc = "region" /\ fatal = "none"
    /\ paging_early' = (paging_early \/ (mmu_alloc_id(table) # NFRAMES /\ ~paging_ready))
    /\ UNCHANGED << handler_ran, srv >>
    /\ nregion < Len(IdentityRegions)
    /\ LET i == mmu_alloc_id(table)
           r == IdentityRegions[nregion + 1]
       IN IF i = NFRAMES
          THEN /\ fatal' = "mmu_alloc"
               /\ UNCHANGED << table, frame_id, live, PtVars, nregion >>
          ELSE /\ table' = setup_identity_region_table(table)
               /\ frame_id' = i
               /\ live' = live \cup {i}
               /\ leaf' = setup_identity_region_leaf(table)
               /\ ptmem' = setup_identity_region_mem(ptmem, root,
                                                     setup_identity_region_leaf(table),
                                                     r.addr, r.npages)
               /\ nregion' = nregion + 1
               /\ UNCHANGED << root, pid_to_pagetable_base, fatal >>
    /\ UNCHANGED << pc, buf0, hw, earth, paging_ready, SoftVars >>

\* Lines 167-168, once pagetable_identity_mapping has returned.
mmu_init_override ==
    /\ pc = "region" /\ fatal = "none"
    /\ UNCHANGED << HistVars, srv >>
    /\ nregion = Len(IdentityRegions)
    /\ earth' = [earth EXCEPT !.mmu_map = "pagetable_mmu_map",
                              !.mmu_switch = "pagetable_mmu_switch"]
    /\ pc' = "paging_init"
    /\ UNCHANGED << buf0, hw, nregion, paging_ready >>
    /\ UNCHANGED << AllocVars, PtVars, SoftVars >>

\* Line 172.
mmu_init_paging ==
    /\ pc = "paging_init" /\ fatal = "none"
    /\ UNCHANGED << HistVars, srv >>
    /\ paging_ready' = TRUE
    /\ pc' = "run"
    /\ UNCHANGED << buf0, hw, earth, nregion >>
    /\ UNCHANGED << AllocVars, PtVars, SoftVars >>

(* ------------------- calls through the installed interface ------------ *)
\* earth->mmu_alloc(&frame_id, &cached_addr).
mmu_alloc ==
    /\ pc = "run" /\ fatal = "none"
    /\ UNCHANGED << HistVars, srv >>
    /\ LET i == mmu_alloc_id(table)
       IN IF i = NFRAMES
          THEN fatal' = "mmu_alloc" /\ table' = table /\ live' = live
          ELSE /\ fatal' = fatal
               /\ table' = mmu_alloc_table(table)
               /\ live' = live \cup {i}
    /\ UNCHANGED frame_id
    /\ UNCHANGED << BootVars, PtVars, SoftVars >>

\* earth->mmu_free(pid).
mmu_free(pid) ==
    /\ pc = "run" /\ fatal = "none"
    /\ UNCHANGED << HistVars, srv >>
    /\ table' = mmu_free_table(table, pid)
    /\ store' = paging_invalidate_cache(store, OwnedBy(table, pid))
    /\ pid_to_pagetable_base' = mmu_free_base(pid_to_pagetable_base, pid)
    /\ live' = live \ OwnedBy(table, pid)
    /\ curr_vm_pid' = mmu_free_curr(curr_vm_pid, pid)
    /\ UNCHANGED << BootVars, frame_id, fatal, root, leaf, ptmem, window >>

\* earth->mmu_map(pid, page_no, frame_id) with the software TLB installed.
soft_mmu_map(pid, page_no, f) ==
    /\ pc = "run" /\ fatal = "none"
    /\ UNCHANGED << HistVars, srv >>
    /\ earth.mmu_map = "soft_mmu_map"
    /\ table' = soft_mmu_map_table(table, pid, page_no, f)
    /\ UNCHANGED << BootVars, frame_id, fatal, live, PtVars, SoftVars >>

\* earth->mmu_switch(pid) with the software TLB installed.
soft_mmu_switch(pid) ==
    /\ pc = "run" /\ fatal = "none"
    /\ UNCHANGED << HistVars, srv >>
    /\ earth.mmu_switch = "soft_mmu_switch"
    /\ store' = soft_mmu_switch_store(store, table, window, curr_vm_pid, pid)
    /\ window' = soft_mmu_switch_window(store, table, window, curr_vm_pid, pid)
    /\ curr_vm_pid' = soft_mmu_switch_curr(curr_vm_pid, pid)
    /\ UNCHANGED << BootVars, AllocVars, PtVars >>

\* Mutant: the binding is recorded in the frame table and the call returns.
pagetable_mmu_map_bind(pid, page_no, f) ==
    /\ pc = "run" /\ fatal = "none"
    /\ UNCHANGED << HistVars, srv >>
    /\ earth.mmu_map = "pagetable_mmu_map"
    /\ table' = soft_mmu_map_table(table, pid, page_no, f)
    /\ UNCHANGED << BootVars, fatal, frame_id, live, PtVars, SoftVars >>

\* earth->mmu_map(..) with page tables installed: FATAL, line 121.
pagetable_mmu_map(pid, page_no, f) ==
    /\ pc = "run" /\ fatal = "none"
    /\ UNCHANGED << HistVars, srv >>
    /\ earth.mmu_map = "pagetable_mmu_map"
    /\ fatal' = "pagetable_mmu_map"
    /\ UNCHANGED << BootVars, table, frame_id, live, PtVars, SoftVars >>

\* earth->mmu_switch(pid) with page tables installed: FATAL, line 127.
pagetable_mmu_switch(pid) ==
    /\ pc = "run" /\ fatal = "none"
    /\ UNCHANGED << HistVars, srv >>
    /\ earth.mmu_switch = "pagetable_mmu_switch"
    /\ fatal' = "pagetable_mmu_switch"
    /\ UNCHANGED << BootVars, table, frame_id, live, PtVars, SoftVars >>

\* The caller of mmu_alloc fills the frame through the cached address it got.
WriteFrame(f, b) ==
    /\ pc = "run" /\ fatal = "none"
    /\ UNCHANGED << HistVars, srv >>
    /\ table[f].use # 0
    /\ paging_read(f) \notin DOMAIN ptmem
    /\ store' = [store EXCEPT ![f] = b]
    /\ UNCHANGED << BootVars, AllocVars, PtVars, curr_vm_pid, window >>

\* The resident process stores to one of its pages.
WriteWindow(page_no, b) ==
    /\ pc = "run" /\ fatal = "none"
    /\ UNCHANGED << HistVars, srv >>
    /\ earth.mmu_switch = "soft_mmu_switch"
    /\ \E i \in OwnedBy(table, curr_vm_pid) : table[i].page_no = page_no
    /\ window' = [window EXCEPT ![page_no] = b]
    /\ UNCHANGED << BootVars, AllocVars, PtVars, curr_vm_pid, store >>

(* ---------------------------- specification --------------------------- *)
\* The callers of the interface are the kernel: they bind frames they have
\* allocated, and while the software TLB is installed they hold at most
\* MaxLive frames.
Next ==
    \/ \E c \in {"0", "1", "x"} : mmu_init_read(c)
    \/ mmu_init_chosen
    \/ mmu_init_probe
    \/ mmu_init_validate
    \/ mmu_init_wire
    \/ pagetable_identity_mapping_root
    \/ setup_identity_region
    \/ mmu_init_override
    \/ mmu_init_paging
    \/ (   (earth.mmu_map = "soft_mmu_map" => Cardinality(InUse(table)) < MaxLive)
        /\ mmu_alloc)
    \/ \E pid \in Pids : mmu_free(pid)
    \/ \E pid \in Pids, page_no \in Pages, f \in InUse(table) :
           soft_mmu_map(pid, page_no, f)
    \/ \E pid \in Pids : soft_mmu_switch(pid)
    \/ \E pid \in Pids, page_no \in Pages, f \in InUse(table) :
           pagetable_mmu_map(pid, page_no, f)
    \/ \E pid \in Pids : pagetable_mmu_switch(pid)
    \/ \E f \in Frames, b \in Bytes : WriteFrame(f, b)
    \/ \E page_no \in Pages, b \in Bytes : WriteWindow(page_no, b)

Spec == Init /\ [][Next]_vars

(* ------------------ the clients of the system servers ----------------- *)
MmuVars == << BootVars, AllocVars, PtVars, SoftVars, HistVars >>

\* dir_lookup, lines 19-23: the request is built and sent to GPID_DIR.
dir_lookup_send(dir_ino, name) ==
    /\ srv.pc = "idle" /\ srv.fatal = "none"
    /\ srv' = [srv EXCEPT !.pc = "dir_lookup", !.dest = GPID_DIR,
                          !.req = [type |-> "DIR_LOOKUP", ino |-> dir_ino,
                                   name |-> name, offset |-> 0],
                          !.returned = FALSE, !.block0 = srv.block]
    /\ UNCHANGED MmuVars

\* dir_lookup, lines 25-29: sys_recv fills sender and buf, then the check.
dir_lookup_recv(s, reply) ==
    /\ srv.pc = "dir_lookup" /\ srv.fatal = "none"
    /\ srv' = IF ~dir_lookup_check(s)
              THEN [srv EXCEPT !.sender = s, !.buf = reply, !.fatal = "dir_lookup"]
              ELSE [srv EXCEPT !.sender = s, !.buf = reply, !.pc = "idle",
                               !.returned = TRUE, !.ret = dir_lookup_ret(reply)]
    /\ UNCHANGED MmuVars

\* file_read, lines 33-37: the request is built and sent to GPID_FILE.
file_read_send(file_ino, offset) ==
    /\ srv.pc = "idle" /\ srv.fatal = "none"
    /\ srv' = [srv EXCEPT !.pc = "file_read", !.dest = GPID_FILE,
                          !.req = [type |-> "FILE_READ", ino |-> file_ino,
                                   name |-> "", offset |-> offset],
                          !.returned = FALSE, !.block0 = srv.block]
    /\ UNCHANGED MmuVars

\* file_read, lines 39-44: sys_recv, the check, the copy into the caller's
\* block, the status.
file_read_recv(s, reply) ==
    /\ srv.pc = "file_read" /\ srv.fatal = "none"
    /\ srv' = IF ~file_read_check(s)
              THEN [srv EXCEPT !.sender = s, !.buf = reply, !.fatal = "file_read"]
              ELSE [srv EXCEPT !.sender = s, !.buf = reply, !.pc = "idle",
                               !.block = reply.block,
                               !.returned = TRUE, !.ret = file_read_ret(reply)]
    /\ UNCHANGED MmuVars

\* The caller's block between two calls.
WriteBlock(b) ==
    /\ srv.pc = "idle" /\ srv.fatal = "none"
    /\ srv' = [srv EXCEPT !.block = b]
    /\ UNCHANGED MmuVars

NextServers ==
    \/ \E dir_ino \in Inos, name \in Names : dir_lookup_send(dir_ino, name)
    \/ \E s \in Senders, reply \in Replies : dir_lookup_recv(s, reply)
    \/ \E file_ino \in Inos, offset \in Offsets : file_read_send(file_ino, offset)
    \/ \E s \in Senders, reply \in Replies : file_read_recv(s, reply)
    \/ \E b \in Bytes : WriteBlock(b)

SpecServers == Init /\ [][NextServers]_vars

(* ------------------------------- claims ------------------------------- *)
\* The kernel is running with the software TLB installed.
SoftRun ==
    pc = "run" /\ fatal = "none" /\ earth.mmu_switch = "soft_mmu_switch"

\* C1: the frame id mmu_alloc returns is a frame of the table and is none of
\* the frame ids an earlier mmu_alloc returned and no mmu_free has released
\* since.
C1_AllocFresh ==
    mmu_alloc_id(table) # NFRAMES => mmu_alloc_id(table) \in Frames \ live

\* C1 witness: frames are allocated and a released frame id lies below one of
\* them, so the next mmu_alloc hands out an id that was in use before.
C1_Witness ==
    /\ SoftRun
    /\ \E j \in live : mmu_alloc_id(table) < j
    /\ store[mmu_alloc_id(table)] = 1

\* The memory and the frame contents after soft_mmu_map(pid, page_no, f)
\* followed by soft_mmu_switch(pid).
BindSwitchWindow(pid, page_no, f) ==
    soft_mmu_switch_window(store, soft_mmu_map_table(table, pid, page_no, f),
                           window, curr_vm_pid, pid)

BindSwitchStore(pid, page_no, f) ==
    soft_mmu_switch_store(store, soft_mmu_map_table(table, pid, page_no, f),
                          window, curr_vm_pid, pid)

\* C2 as stated: after bind(pid, page_no, f) on an allocated frame and
\* switch(pid), the memory at page_no << 12 is the cached content of f,
\* whatever happened before, pid resident at the bind or not.
C2_BindSwitchReadsFrame ==
    SoftRun =>
        \A pid \in Pids, page_no \in Pages, f \in InUse(table) :
            BindSwitchWindow(pid, page_no, f)[page_no]
                = BindSwitchStore(pid, page_no, f)[f]

\* Bind and switch to a process that is not resident, f being the last frame
\* of the table bound at the page: the page holds the content of f.
BindSwitchNonResident ==
    SoftRun =>
        \A pid \in Pids, page_no \in Pages, f \in InUse(table) :
            (   pid # curr_vm_pid
             /\ \A g \in OwnedBy(soft_mmu_map_table(table, pid, page_no, f), pid) :
                    g > f => table[g].page_no # page_no)
            => BindSwitchWindow(pid, page_no, f)[page_no]
                   = BindSwitchStore(pid, page_no, f)[f]

\* C2 amended: in every state the kernel reaches, after bind(pid, page_no, f)
\* on an allocated frame and switch(pid), the memory at page_no << 12 is the
\* cached content of f, provided pid is not the resident process when switch
\* is called and no allocated frame after f in the table is bound to the same
\* page of pid.
C2_BindSwitchReadsFrameNonResident == []BindSwitchNonResident

\* C2 witness: a bind and a switch to a process that is not resident bring
\* the content of the frame to a page that held something else.
C2_Witness ==
    /\ SoftRun
    /\ \E pid \in Pids, page_no \in Pages, f \in InUse(table) :
           /\ pid # curr_vm_pid
           /\ curr_vm_pid \in Pids
           /\ table[f].pid # pid
           /\ window[page_no] # store[f]
           /\ BindSwitchWindow(pid, page_no, f)[page_no] = store[f]

\* The memory after soft_mmu_switch(q) followed by soft_mmu_switch(p), p
\* being the resident process.
RoundTripWindow(p, q) ==
    soft_mmu_switch_window(
        soft_mmu_switch_store(store, table, window, p, q),
        table,
        soft_mmu_switch_window(store, table, window, p, q),
        soft_mmu_switch_curr(p, q),
        p)

\* C3: for the resident process p and any other process q, switch(q) followed
\* by switch(p) leaves every page that a frame of p is bound at with the
\* content it had before switch(q).
C3_RoundTripLossless ==
    (SoftRun /\ curr_vm_pid \in Pids) =>
        \A q \in Pids \ {curr_vm_pid} :
            \A f \in OwnedBy(table, curr_vm_pid) :
                RoundTripWindow(curr_vm_pid, q)[table[f].page_no]
                    = window[table[f].page_no]

\* C3 witness: the resident process has a page whose content differs from
\* what the device holds for its frame, and another process has a frame with
\* different content bound at the same page, so the round trip overwrites the
\* page and has to bring it back.
C3_Witness ==
    /\ SoftRun
    /\ curr_vm_pid \in Pids
    /\ \E q \in Pids \ {curr_vm_pid} :
       \E f \in OwnedBy(table, curr_vm_pid), g \in OwnedBy(table, q) :
           /\ table[f].page_no = table[g].page_no
           /\ store[g] # window[table[f].page_no]
           /\ store[f] # window[table[f].page_no]
           /\ soft_mmu_switch_window(store, table, window, curr_vm_pid, q)
                  [table[f].page_no] = store[g]

\* C4 as stated: after switch(target) the memory holds nothing of the process
\* that was resident: a page one of its frames is bound at either holds a
\* frame of the target or no longer holds the content saved for that frame.
C4_WindowOnlyTarget ==
    SoftRun =>
        \A target \in Pids \ {curr_vm_pid} :
            \A f \in OwnedBy(table, curr_vm_pid) :
                \/ \E g \in OwnedBy(table, target) :
                       table[g].page_no = table[f].page_no
                \/ ~ (/\ soft_mmu_switch_store(store, table, window,
                                               curr_vm_pid, target)[f] # 0
                      /\ soft_mmu_switch_window(store, table, window,
                                                curr_vm_pid, target)[table[f].page_no]
                           = soft_mmu_switch_store(store, table, window,
                                                   curr_vm_pid, target)[f])

C6_AllocFatalIffFull ==
    /\ (mmu_alloc_id(table) = NFRAMES) <=> (InUse(table) = Frames)
    /\ mmu_alloc_id(table) = NFRAMES => mmu_alloc_table(table) = table
    /\ fatal = "mmu_alloc" => (InUse(table) = Frames /\ live = Frames)

\* C6 witness: the kernel halted in mmu_alloc with the table full.
C6_Witness ==
    fatal = "mmu_alloc" /\ Cardinality(InUse(table)) = NFRAMES

C8_FreeIdempotent ==
    \A pid \in Pids :
        LET t1 == mmu_free_table(table, pid)
            b1 == mmu_free_base(pid_to_pagetable_base, pid)
            s1 == paging_invalidate_cache(store, OwnedBy(table, pid))
        IN /\ OwnedBy(table, pid) = {} =>
                  (/\ t1 = table
                   /\ b1 = pid_to_pagetable_base
                   /\ s1 = store)
           /\ mmu_free_table(t1, pid) = t1
           /\ mmu_free_base(b1, pid) = b1
           /\ paging_invalidate_cache(s1, OwnedBy(t1, pid)) = s1

\* C8 witness: a pid owns no frame while frames of another are allocated,
\* one of them freed before.
C8_Witness ==
    /\ pc = "run" /\ fatal = "none"
    /\ \E pid \in Pids :
           /\ OwnedBy(table, pid) = {}
           /\ InUse(table) # {}
           /\ \E i \in Frames : table[i].use = 0 /\ store[i] = 1

\* Virtual page vpn lies in one of the six identity regions.
InRegion(vpn) ==
    \E k \in 1 .. Len(IdentityRegions) :
        /\ IdentityRegions[k].addr <= vpn
        /\ vpn < IdentityRegions[k].addr + IdentityRegions[k].npages

\* Some page with root index vpn1 lies in one of the six identity regions.
BlockHasRegion(vpn1) ==
    \E k \in 1 .. Len(IdentityRegions) :
        /\ IdentityRegions[k].addr \div PT_ENTRIES <= vpn1
        /\ vpn1 <= (IdentityRegions[k].addr + IdentityRegions[k].npages - 1)
                       \div PT_ENTRIES

\* The translation C9 states for vpn.
IdentityTranslation(vpn) ==
    IF InRegion(vpn) THEN [valid |-> TRUE, ppn |-> vpn, rwx |-> 7] ELSE Unmapped

\* C9: once pagetable_identity_mapping(0) has returned, the walk of the boot
\* process's tables gives, for every virtual page, the same physical page
\* with R, W and X if the page lies in one of the six regions, and no
\* mapping otherwise.  (A root index no region reaches is settled by its
\* invalid root entry, which unmaps all its 1024 pages.)
C9_IdentityMapping ==
    (nregion = Len(IdentityRegions) /\ pid_to_pagetable_base[0] # 0) =>
        \A vpn1 \in 0 .. (PT_ENTRIES - 1) :
            \/ /\ ~BlockHasRegion(vpn1)
               /\ ptmem[pid_to_pagetable_base[0]][vpn1] % 2 = 0
            \/ \A vpn0 \in 0 .. (PT_ENTRIES - 1) :
                   Walk(ptmem, pid_to_pagetable_base[0], vpn1 * PT_ENTRIES + vpn0)
                       = IdentityTranslation(vpn1 * PT_ENTRIES + vpn0)

\* C9 witness: the kernel runs with the boot tables built, the last page of
\* DTIM translates, the page before UART0 does not.
C9_Witness ==
    /\ pc = "run"
    /\ nregion = Len(IdentityRegions) /\ pid_to_pagetable_base[0] # 0
    /\ Walk(ptmem, pid_to_pagetable_base[0], 525311).valid
    /\ ~Walk(ptmem, pid_to_pagetable_base[0], 65554).valid

\* C10: every non-zero entry of the root table has low 4 bits 0x1 and every
\* non-zero entry of a leaf table has low 4 bits 0xF, after each call of
\* setup_identity_region.
C10_EntryFlags ==
    root \in DOMAIN ptmem =>
        /\ \A k \in 0 .. (PT_ENTRIES - 1) :
               ptmem[root][k] # 0 => ptmem[root][k] % 16 = FLAG_NEXT_LEVEL
        /\ \A lf \in (DOMAIN ptmem) \ {root} :
               \A k \in 0 .. (PT_ENTRIES - 1) :
                   ptmem[lf][k] # 0 => ptmem[lf][k] % 16 = FLAG_VALID_RWX

\* C10 witness: all six regions are set up, the root table has six entries,
\* and the UART0 leaf has exactly one.
C10_Witness ==
    /\ nregion = Len(IdentityRegions)
    /\ root \in DOMAIN ptmem
    /\ Cardinality({k \in 0 .. (PT_ENTRIES - 1) : ptmem[root][k] # 0}) = 6
    /\ \E lf \in (DOMAIN ptmem) \ {root} :
           Cardinality({k \in 0 .. (PT_ENTRIES - 1) : ptmem[lf][k] # 0}) = 1

\* No page-table function has been invoked: pagetable_identity_mapping has
\* neither been entered nor left a root table, and neither FATAL stub ran.
NoPagetableCall ==
    /\ pc \notin {"root", "region"}
    /\ root = 0 /\ leaf = 0 /\ nregion = 0
    /\ DOMAIN ptmem = {}
    /\ \A pid \in Pids : pid_to_pagetable_base[pid] = 0
    /\ fatal \notin {"pagetable_mmu_map", "pagetable_mmu_switch"}

\* C11: mmu_init stays in the loop that reads the choice until buf[0] is '0'
\* or '1', whatever else is typed before; when the accepted character is '1',
\* no page-table function is ever invoked, earth->mmu_map and
\* earth->mmu_switch never hold a page-table function, and from the end of
\* the wiring on they hold soft_mmu_map and soft_mmu_switch.
C11_ChoiceGatesBoot ==
    /\ pc # "choose" => buf0 \in {"0", "1"}
    /\ buf0 = "1" =>
          /\ NoPagetableCall
          /\ earth.mmu_map \in {"NULL", "soft_mmu_map"}
          /\ earth.mmu_switch \in {"NULL", "soft_mmu_switch"}
          /\ pc \in {"paging_init", "run"} =>
                 /\ earth.mmu_map = "soft_mmu_map"
                 /\ earth.mmu_switch = "soft_mmu_switch"

\* C11 witness: the kernel runs after '1' was accepted, and a process has
\* been switched to through the installed software TLB.
C11_Witness ==
    /\ pc = "run" /\ buf0 = "1"
    /\ earth.mmu_map = "soft_mmu_map" /\ earth.mmu_switch = "soft_mmu_switch"
    /\ curr_vm_pid \in Pids
    /\ NoPagetableCall

\* The platform cannot do what was chosen: page tables on the Arty board.
PlatformMismatch == earth.platform = "ARTY" /\ buf0 = "0"

\* C12: after the probe, earth->platform is ARTY iff platform_detect was
\* invoked by the probing store; with ARTY and '0', mmu_init halts in FATAL
\* with no interface function installed, no frame allocated and the paging
\* device neither initialised nor called, and never reaches the wiring; in
\* every other combination the check of lines 156-157 passes on to the
\* wiring and cannot halt.
C12_PlatformMismatchFatal ==
    /\ pc \in {"choose", "probe"} => ~handler_ran
    /\ pc \notin {"choose", "probe"} => (earth.platform = "ARTY" <=> handler_ran)
    /\ fatal = "mmu_init" =>
          /\ pc = "validate" /\ handler_ran /\ PlatformMismatch
          /\ earth.mmu_free = "NULL" /\ earth.mmu_alloc = "NULL"
          /\ earth.mmu_map = "NULL" /\ earth.mmu_switch = "NULL"
          /\ InUse(table) = {} /\ live = {}
          /\ ~paging_ready /\ ~paging_early
    /\ pc \in {"wire", "root", "region", "paging_init", "run"} =>
          ~PlatformMismatch /\ fatal # "mmu_init"
    /\ (pc = "validate" /\ fatal = "none") =>
          IF PlatformMismatch
          THEN /\ ENABLED (mmu_init_validate /\ fatal' = "mmu_init")
               /\ ~ENABLED (mmu_init_validate /\ pc' = "wire")
          ELSE /\ ENABLED (mmu_init_validate /\ pc' = "wire")
               /\ ~ENABLED (mmu_init_validate /\ fatal' # "none")

\* C12 witness: platform_detect ran, '0' was chosen and mmu_init has halted.
C12_Witness ==
    /\ fatal = "mmu_init" /\ handler_ran /\ buf0 = "0"
    /\ earth.platform = "ARTY" /\ earth.mmu_alloc = "NULL"

\* mmu_init has installed the page-table functions (lines 167-168).
PagetableInstalled ==
    earth.mmu_map = "pagetable_mmu_map" \/ earth.mmu_switch = "pagetable_mmu_switch"

\* C13: the page-table map and switch are installed together; while they
\* are installed, a call of earth->mmu_map or earth->mmu_switch with any
\* pid, page and frame can only halt in the FATAL of pagetable_mmu_map or
\* pagetable_mmu_switch, with the frame table, the page tables, the
\* resident pid and the memory left as they were; no call ever returns, so
\* no frame carries a binding and no process is resident.
C13_PagetableStubsHalt ==
    /\ earth.mmu_map = "pagetable_mmu_map" <=> earth.mmu_switch = "pagetable_mmu_switch"
    /\ fatal \in {"pagetable_mmu_map", "pagetable_mmu_switch"} => PagetableInstalled
    /\ PagetableInstalled =>
          /\ curr_vm_pid = NoPid
          /\ \A i \in Frames : table[i].pid = 0 /\ table[i].page_no = 0
          /\ window = [p \in Pages |-> 0]
    /\ (PagetableInstalled /\ pc = "run" /\ fatal = "none") =>
          /\ \A pid \in Pids, page_no \in Pages, f \in Frames :
                /\ ENABLED pagetable_mmu_map(pid, page_no, f)
                /\ ~ENABLED (/\ pagetable_mmu_map(pid, page_no, f)
                             /\ ~(/\ fatal' = "pagetable_mmu_map"
                                  /\ UNCHANGED << table, PtVars, SoftVars >>))
                /\ ~ENABLED soft_mmu_map(pid, page_no, f)
          /\ \A pid \in Pids :
                /\ ENABLED pagetable_mmu_switch(pid)
                /\ ~ENABLED (/\ pagetable_mmu_switch(pid)
                             /\ ~(/\ fatal' = "pagetable_mmu_switch"
                                  /\ UNCHANGED << table, PtVars, SoftVars >>))
                /\ ~ENABLED soft_mmu_switch(pid)

\* C13 witness: with the boot tables built and a frame allocated by a
\* caller, a call of earth->mmu_map has halted in pagetable_mmu_map.
C13_Witness ==
    /\ fatal = "pagetable_mmu_map" /\ PagetableInstalled
    /\ root \in DOMAIN ptmem
    /\ \E f \in InUse(table) : paging_read(f) \notin DOMAIN ptmem

\* C14: whenever some frame is unused, mmu_alloc returns the lowest index i
\* with table[i].use = 0, sets table[i].use to 1, and leaves the pid and
\* page_no of entry i and every other entry as they were.
C14_FirstFit ==
    (pc \in {"root", "region", "run"} /\ InUse(table) # Frames) =>
        LET i == mmu_alloc_id(table)
            t2 == mmu_alloc_table(table)
        IN /\ i \in Frames
           /\ table[i].use = 0
           /\ \A j \in Frames : j < i => table[j].use # 0
           /\ t2[i].use = 1
           /\ t2[i].pid = table[i].pid /\ t2[i].page_no = table[i].page_no
           /\ \A j \in Frames \ {i} : t2[j] = table[j]

\* C14 witness: mmu_alloc is called with an unused frame below a frame
\* that is in use and bound, and with another unused frame above it.
C14_Witness ==
    /\ SoftRun
    /\ \E j, k \in Frames :
          /\ mmu_alloc_id(table) < j /\ j < k
          /\ table[j].use # 0 /\ table[j].pid # 0
          /\ table[k].use = 0

\* C15: soft_mmu_switch(pid) for a pid that is not resident calls
\* paging_write once for each frame of the resident pid, then paging_read
\* once for each frame of pid, every paging_write before any paging_read,
\* and assigns curr_vm_pid last; the frame contents and the memory it leaves
\* are those of these operations done in this order.  For the resident pid it
\* calls nothing and changes nothing.
C15_SwitchPhases ==
    SoftRun =>
      \A pid \in Pids :
        LET ops == soft_mmu_switch_ops(table, curr_vm_pid, pid)
            n == Len(ops)
            after == SwitchReplay(ops, store, window)
        IN IF pid = curr_vm_pid
           THEN /\ ops = << >>
                /\ ~ENABLED (soft_mmu_switch(pid) /\ ~UNCHANGED vars)
           ELSE /\ n >= 1 /\ ops[n].op = "curr_vm_pid"
                /\ \A a \in 1..(n - 1) : ops[a].op \in {"paging_write", "paging_read"}
                /\ \A a, b \in 1..n :
                      (ops[a].op = "paging_write" /\ ops[b].op = "paging_read") => a < b
                /\ {ops[a].frame : a \in {b \in 1..n : ops[b].op = "paging_write"}}
                      = OwnedBy(table, curr_vm_pid)
                /\ {ops[a].frame : a \in {b \in 1..n : ops[b].op = "paging_read"}}
                      = OwnedBy(table, pid)
                /\ n = Cardinality(OwnedBy(table, curr_vm_pid))
                        + Cardinality(OwnedBy(table, pid)) + 1
                /\ after.store = soft_mmu_switch_store(store, table, window,
                                                       curr_vm_pid, pid)
                /\ after.window = soft_mmu_switch_window(store, table, window,
                                                         curr_vm_pid, pid)

\* C15 witness: a switch from a resident process to another one, each with
\* a frame bound at the same page, the page and the incoming frame holding
\* different bytes.
C15_Witness ==
    /\ SoftRun /\ curr_vm_pid \in Pids
    /\ \E pid \in Pids \ {curr_vm_pid} :
          \E f \in OwnedBy(table, curr_vm_pid), g \in OwnedBy(table, pid) :
             /\ table[f].page_no = table[g].page_no
             /\ window[table[f].page_no] # store[g]
             /\ store[f] # window[table[f].page_no]

\* Page numbers of region bases setup_identity_region is called with next:
\* 0x02010000 and 0x10014000, in the 4 MB blocks of CLINT and of UART0, and
\* 0x00400000, in a block with no root entry.
RegionProbes == {8208, 65556, 1024}

\* C16: a call setup_identity_region(addr, 1) made while the root entry
\* covering addr is present allocates no frame and leaves the root entry
\* pointing to the leaf table it pointed to, so every page of the block that
\* was mapped before the call is mapped to the same page after it; made
\* while the root entry is absent it allocates one frame for the leaf table.
C16_LeafReused ==
    (pc = "region" /\ fatal = "none" /\ InUse(table) # Frames) =>
      \A addr \in RegionProbes :
        LET vpn1 == addr \div PT_ENTRIES
            t2 == setup_identity_region_table(table)
            mem2 == setup_identity_region_mem(ptmem, root,
                                              setup_identity_region_leaf(table),
                                              addr, 1)
        IN IF ptmem[root][vpn1] % 2 = 1
           THEN /\ t2 = table
                /\ mem2[root][vpn1] = ptmem[root][vpn1]
                /\ \A k \in 0 .. (PT_ENTRIES - 1) :
                      Walk(ptmem, root, vpn1 * PT_ENTRIES + k).valid =>
                         Walk(mem2, root, vpn1 * PT_ENTRIES + k)
                           = Walk(ptmem, root, vpn1 * PT_ENTRIES + k)
           ELSE InUse(t2) = InUse(table) \cup {mmu_alloc_id(table)}

\* C17: dir_lookup sends its request to GPID_DIR and file_read to GPID_FILE;
\* a reply from any other sender halts the caller in FATAL with nothing
\* returned and the caller's block as it was before the call; a reply from
\* the expected sender makes dir_lookup return the reply's ino when the
\* status is OK and -1 otherwise, and file_read return 0 when the status is
\* OK and -1 otherwise.
C17_ProtocolViolation ==
    /\ srv.pc = "dir_lookup" => (srv.dest = GPID_DIR /\ srv.req.type = "DIR_LOOKUP")
    /\ srv.pc = "file_read" => (srv.dest = GPID_FILE /\ srv.req.type = "FILE_READ")
    /\ srv.fatal \in {"none", "dir_lookup", "file_read"}
    /\ srv.fatal # "none" =>
          /\ srv.pc = srv.fatal
          /\ ~srv.returned
          /\ srv.block = srv.block0
          /\ srv.sender # (IF srv.fatal = "dir_lookup" THEN GPID_DIR ELSE GPID_FILE)
    /\ (srv.returned /\ srv.req.type = "DIR_LOOKUP") =>
          /\ srv.sender = GPID_DIR
          /\ srv.ret = (IF srv.buf.status = "OK" THEN srv.buf.ino ELSE -1)
    /\ (srv.returned /\ srv.req.type = "FILE_READ") =>
          /\ srv.sender = GPID_FILE
          /\ srv.ret = (IF srv.buf.status = "OK" THEN 0 ELSE -1)
    /\ (srv.pc = "dir_lookup" /\ srv.fatal = "none") =>
          \A s \in Senders \ {GPID_DIR}, reply \in Replies :
             ~ENABLED (dir_lookup_recv(s, reply) /\ srv'.fatal # "dir_lookup")
    /\ (srv.pc = "file_read" /\ srv.fatal = "none") =>
          \A s \in Senders \ {GPID_FILE}, reply \in Replies :
             ~ENABLED (file_read_recv(s, reply) /\ srv'.fatal # "file_read")

\* C17 witness: file_read has halted on a reply of the directory server
\* whose status is OK and whose bytes differ from the caller's block.
C17_Witness ==
    /\ srv.fatal = "file_read" /\ srv.sender = GPID_DIR
    /\ srv.buf.status = "OK" /\ srv.buf.block # srv.block
    /\ ~srv.returned

\* C18: for every pid, 0 included, mmu_free(pid) leaves the entry of every
\* frame in use with another pid as it was, and the entry of every frame
\* that is allocated and was never bound as it was; with the page-table
\* functions installed no frame was ever bound (C13), the frames of the boot
\* page tables and the frames the callers have allocated since.
C18_FreeOnlyBound ==
    (pc = "run" /\ fatal = "none") =>
      \A pid \in Pids :
        LET t2 == mmu_free_table(table, pid)
        IN /\ \A f \in InUse(table) : table[f].pid # pid => t2[f] = table[f]
           /\ PagetableInstalled => \A f \in InUse(table) : t2[f] = table[f]

\* C19: after mmu_free(pid) of the resident pid, curr_vm_pid is not pid any
\* more, so that after a following mmu_alloc, soft_mmu_map(pid, page_no, f)
\* of the frame f it returned and soft_mmu_switch(pid), the page page_no
\* holds the content of frame f.
C19_FreeClearsResident ==
    (SoftRun /\ curr_vm_pid \in Pids) =>
      LET pid == curr_vm_pid
          c1 == mmu_free_curr(curr_vm_pid, pid)
          t1 == mmu_free_table(table, pid)
          s1 == paging_invalidate_cache(store, OwnedBy(table, pid))
          f == mmu_alloc_id(t1)
      IN /\ c1 # pid
         /\ f # NFRAMES =>
               \A page_no \in Pages :
                  LET t2 == soft_mmu_map_table(mmu_alloc_table(t1), pid, page_no, f)
                  IN soft_mmu_switch_window(s1, t2, window, c1, pid)[page_no] = s1[f]

\* C20: on every path through mmu_init and in every state after it, no
\* paging-device function (paging_read, paging_write,
\* paging_invalidate_cache) has been called before paging_init; the
\* mmu_alloc calls of pagetable_identity_mapping, which call paging_read
\* (line 34), are included.
C20_PagingInitFirst ==
    /\ ~paging_early
    /\ ~paging_ready => (InUse(table) = {} /\ live = {} /\ curr_vm_pid = NoPid)
====
